---- MODULE Spec2Model ----
(***************************************************************************)
(* Model of vuams_serial.py: the AmsDevice facade (connect / disconnect,   *)
(* the request operations, the fire-and-forget marker), its packet codec   *)
(* (send_packet), its poll-read (receive_packet) and the serial transport  *)
(* with the device behind it.                                              *)
(*                                                                         *)
(* Time is counted in units of the 0.1 s poll interval of receive_packet.  *)
(* Bytes are integers 0..255, byte strings are sequences of them, Python   *)
(* values returned to the caller are records [kind, int, str].             *)
(***************************************************************************)
EXTENDS Integers, Sequences, FiniteSets, TLC

\* ------------------------------------------------------------------ bounds
\* requests the device may still answer (it answers each at most once)
MaxPending == 1
\* handles opened by an earlier connect() and overwritten without a close
MaxLeaked == 1
\* the longest a single time.sleep(0.1) may take, in poll intervals
MaxSleep == 2
MaxCodecLen == 2
MaxPorts == 3
\* capacity of the transport's input buffer in bytes
InbufCap == 12

\* ------------------------------------------------------- program constants
\* receive_packet(timeout=3): 3 s = 30 poll intervals of 0.1 s
DefaultTimeout == 30
\* the response that confirms the device is present
PresencePrefix == <<12, 0, 129, 200, 65, 77, 83, 50>>

status_labels ==
    (1 :> "No Memory") @@ (2 :> "Close Cover") @@ (3 :> "Idle") @@
    (4 :> "Recording") @@ (5 :> "Memory Full") @@ (6 :> "Battery Low")

\* ------------------------------------------------------------ Python values
PyNone == [kind |-> "None", int |-> 0, str |-> ""]
PyBool(b) == [kind |-> "bool", int |-> IF b THEN 1 ELSE 0, str |-> ""]
PyInt(i) == [kind |-> "int", int |-> i, str |-> ""]
PyStr(s) == [kind |-> "str", int |-> 0, str |-> s]
PyRaise(e) == [kind |-> "raise", int |-> 0, str |-> e]

\* truth value of a Python value as tested by `if r:` (None and False are falsy)
Truthy(v) == v.kind = "bool" /\ v.int = 1

\* what receive_packet hands back: None, or the bytes read
DataNone == [none |-> TRUE, bytes |-> <<>>]
DataOf(bs) == [none |-> FALSE, bytes |-> bs]

\* Python slice xs[:n]
Slice(xs, n) == SubSeq(xs, 1, IF Len(xs) < n THEN Len(xs) ELSE n)

\* ------------------------------------------------------ endpoint discovery
HexChars ==
    <<"0", "1", "2", "3", "4", "5", "6", "7",
      "8", "9", "A", "B", "C", "D", "E", "F">>

\* the digits of format(n, "X") for an integer n >= 0
RECURSIVE Hex(_)
Hex(n) ==
    IF n < 16 THEN HexChars[n + 1]
    ELSE Hex(n \div 16) \o HexChars[(n % 16) + 1]

\* mutant: the field width and the zero fill are left out
format_X(n) == Hex(n)

\* f"{n:04X}" for an integer n >= 0
format_04X(n) ==
    LET h == Hex(n)
    IN  CASE Len(h) = 1 -> "000" \o h
          [] Len(h) = 2 -> "00" \o h
          [] Len(h) = 3 -> "0" \o h
          [] OTHER -> h

\* the body of the loop for one port: "return" when the port is the device,
\* "pass" when formatting its vid or pid raised, "next" otherwise
inspect_port(port) ==
    IF port.vid = PyNone \/ port.pid = PyNone THEN "pass"
    ELSE LET vid_hex == format_04X(port.vid.int)
             pid_hex == format_04X(port.pid.int)
         IN  IF /\ port.description = "USB Serial Port (" \o port.device \o ")"
                /\ vid_hex = "0403"
                /\ pid_hex = "6001"
                /\ port.manufacturer = PyStr("FTDI")
             THEN "return"
             ELSE "next"

\* for port in ports: ... return port.device; return None
RECURSIVE scan_ports(_, _)
scan_ports(ports, i) ==
    IF i > Len(ports) THEN PyNone
    ELSE IF inspect_port(ports[i]) = "return" THEN PyStr(ports[i].device)
    ELSE scan_ports(ports, i + 1)

find_device_port(ports) == scan_ports(ports, 1)

\* ------------------------------------------------------------ packet codec
RECURSIVE Xor(_, _, _)
\* bitwise exclusive-or of two n-bit numbers
Xor(a, b, n) ==
    IF n = 0 THEN 0
    ELSE ((a + b) % 2) + 2 * Xor(a \div 2, b \div 2, n - 1)

\* one bit step of the reflected CRC-32 (polynomial EDB88320); the 32-bit
\* register is kept as <<high 16 bits, low 16 bits>>
CrcBit(c) ==
    LET sh == <<c[1] \div 2, (c[2] \div 2) + (c[1] % 2) * 32768>>
    IN  IF c[2] % 2 = 1 THEN <<Xor(sh[1], 60856, 16), Xor(sh[2], 33568, 16)>>
        ELSE sh

RECURSIVE CrcBits(_, _)
CrcBits(c, n) == IF n = 0 THEN c ELSE CrcBits(CrcBit(c), n - 1)

RECURSIVE CrcUpdate(_, _, _)
CrcUpdate(c, bs, i) ==
    IF i > Len(bs) THEN c
    ELSE LET n == CrcBits(<<c[1], Xor(c[2], bs[i], 16)>>, 8)
         IN  IF n[1] >= 0 THEN CrcUpdate(n, bs, i + 1) ELSE n

\* zlib.crc32(bs) & 0xFFFFFFFF as <<high 16 bits, low 16 bits>>
crc32(bs) ==
    LET c == CrcUpdate(<<65535, 65535>>, bs, 1)
    IN  <<65535 - c[1], 65535 - c[2]>>

\* [(crc >> (8 * i)) & 0xFF for i in range(4)]
crc_bytes(c) == <<c[2] % 256, c[2] \div 256, c[1] % 256, c[1] \div 256>>

\* bytearray([(p + 256) % 256 for p in packet])
byte_packet(packet) == [i \in 1..Len(packet) |-> (packet[i] + 256) % 256]

\* the bytes send_packet hands to serialPort.write
send_packet(packet) ==
    LET bp == byte_packet(packet) IN bp \o crc_bytes(crc32(bp))

\* ------------------------------------------------------- request packets
\* b = [8, 0, 1, par]
get_parameter_packet(par) == <<8, 0, 1, par>>

\* b = [8, 0, 11, com]
send_command_packet(com) == <<8, 0, 11, com>>

\* mutant: the length byte counts the list only, not the checksum
sync_time_packet_short(time_array) ==
    <<4 + Len(time_array), 0, 6, 0>> \o time_array

\* b = [8 + len(time_array), 0, 6, 0] + time_array
sync_time_packet(time_array) == <<8 + Len(time_array), 0, 6, 0>> \o time_array

\* s[:32].encode('ascii', 'replace').decode().replace('?', '_') on code points
marker_text(s) ==
    LET t == Slice(s, 32)
        enc(c) == IF c > 127 THEN 63 ELSE c
    IN  [i \in 1..Len(t) |-> IF enc(t[i]) = 63 THEN 95 ELSE enc(t[i])]

\* mutant: b[0] is the length of the list
send_marker_packet_52(s) ==
    LET t == marker_text(s)
    IN  [j \in 1..52 |->
            IF j > 20 /\ j - 20 <= Len(t) THEN t[j - 20]
            ELSE CASE j = 1 -> 52
                   [] j = 3 -> 14
                   [] j = 5 -> 3
                   [] j = 7 -> 48
                   [] j \in 9..12 -> 17
                   [] j = 13 -> 1
                   [] j = 17 -> 4
                   [] OTHER -> 0]

\* the 52-element list send_marker builds (index j of the code is j + 1 here)
send_marker_packet(s) ==
    LET t == marker_text(s)
    IN  [j \in 1..52 |->
            IF j > 20 /\ j - 20 <= Len(t) THEN t[j - 20]
            ELSE CASE j = 1 -> 56
                   [] j = 3 -> 14
                   [] j = 5 -> 3
                   [] j = 7 -> 48
                   [] j \in 9..12 -> 17
                   [] j = 13 -> 1
                   [] j = 17 -> 4
                   [] OTHER -> 0]

\* ------------------------------------------------------ response decoding
\* mutant: only the first 7 bytes of the response are compared
is_device_present_7(d) ==
    IF ~d.none /\ Len(d.bytes) > 0
       /\ Slice(d.bytes, 7) = SubSeq(PresencePrefix, 1, 7)
    THEN PyBool(TRUE)
    ELSE PyNone

\* is_device_present, given what get_parameter_from_device(200) returned
is_device_present(d) ==
    IF ~d.none /\ Len(d.bytes) > 0 /\ Slice(d.bytes, 8) = PresencePrefix
    THEN PyBool(TRUE)
    ELSE PyNone

\* send_command, given what receive_packet returned
send_command(d) == PyBool(~d.none /\ Len(d.bytes) > 0)

\* start_recording / stop_recording call send_command and return nothing
start_stop_recording(d) == LET r == send_command(d) IN PyNone

\* mutant: the status is read one byte too early
get_device_status_at3(d, string) ==
    IF d.none THEN PyNone
    ELSE IF Len(d.bytes) < 4 THEN PyRaise("IndexError")
    ELSE LET status == d.bytes[4]
         IN  IF ~string THEN PyInt(status)
             ELSE IF status \in DOMAIN status_labels
                  THEN PyStr(status_labels[status])
                  ELSE PyRaise("KeyError")

\* get_device_status, given what get_parameter_from_device(100) returned
get_device_status(d, string) ==
    IF d.none THEN PyNone
    ELSE IF Len(d.bytes) < 5 THEN PyRaise("IndexError")
    ELSE LET status == d.bytes[5]
         IN  IF ~string THEN PyInt(status)
             ELSE IF status \in DOMAIN status_labels
                  THEN PyStr(status_labels[status])
                  ELSE PyRaise("KeyError")

\* get_device_label, given what get_parameter_from_device(202) returned
get_device_label(d) ==
    IF d.none THEN PyNone
    ELSE IF Len(d.bytes) < 5 THEN PyRaise("IndexError")
    ELSE PyStr(ToString(d.bytes[5]))

\* sync_time, given what receive_packet returned
sync_time(d) == PyBool(~d.none)

\* ------------------------------------------------------ transport handle
\* serialPort is "None" (never assigned), or the state of the Serial object
\* it references: "open" or "closed"

\* mutant: disconnect() forgets to close the handle
close_port_kept(sp) == sp

\* disconnect(): if self.serialPort: self.serialPort.close()
close_port(sp) == IF sp = "None" THEN "None" ELSE "closed"

\* disconnect(): the facade's state after it
disconnect(sp) == [isConnected |-> FALSE, serialPort |-> close_port(sp)]

\* mutant: a failed presence check returns False without disconnect()
connect_tail_no_disconnect(r, sp) ==
    [isConnected |-> Truthy(r), serialPort |-> sp, ret |-> PyBool(Truthy(r))]

\* connect() after the presence check returned r on the freshly opened handle
connect_tail(r, sp) ==
    IF Truthy(r)
    THEN [isConnected |-> TRUE, serialPort |-> sp, ret |-> PyBool(TRUE)]
    ELSE [isConnected |-> disconnect(sp).isConnected,
          serialPort |-> disconnect(sp).serialPort,
          ret |-> PyBool(FALSE)]

\* serialPort.write(byte_packet) puts the frame on the wire: the handle must
\* be an open Serial object and the write must not raise (w); every other
\* case raises inside send_packet and is caught and printed there
write_ok(sp, w) == sp = "open" /\ w

\* mutant: start_recording returns without waiting for the response
\* mutant: send_marker reads an answer too
awaits_response_all(name) == TRUE

\* mutant: sync_time does not read the answer to its frame
awaits_response_not_sync(name) == name \notin {"send_marker", "sync_time"}

awaits_response_not_start(name) ==
    name \notin {"send_marker", "start_recording"}

\* the operations that call receive_packet after writing their frame
awaits_response(name) == name # "send_marker"

\* mutant: the loop gives up when the deadline is reached, not passed
timeout_exceeded_at(e) == e >= DefaultTimeout

\* time.time() > end_time, with e the time since end_time was computed
timeout_exceeded(e) == e > DefaultTimeout

\* receive_packet's outcome: `finally: return data_received` returns the
\* bytes read, or None after a timeout, an interrupt or any exception
receive_packet(cause, bytes) ==
    [data |-> IF cause = "data" THEN DataOf(bytes) ELSE DataNone,
     raised |-> FALSE]

\* a bytes object, as far as callers look at it
PyBytes(bs) == [kind |-> "bytes", int |-> Len(bs), str |-> ""]

\* get_parameter_from_device: return r
get_parameter_from_device(d) == IF d.none THEN PyNone ELSE PyBytes(d.bytes)

\* what the request primitive under the running operation returned:
\* sync_time and send_command for the operations built on them,
\* get_parameter_from_device for the others
primitive_result(name, d) ==
    CASE name = "sync_time" -> sync_time(d)
      [] name \in {"start_recording", "stop_recording"} -> send_command(d)
      [] OTHER -> get_parameter_from_device(d)

\* what the running operation returns and leaves behind once its
\* receive_packet call came back with rp (send_marker never calls it)
handler_tail(name, string, rp, isC, sp) ==
    LET keep(v) == [isConnected |-> isC, serialPort |-> sp, ret |-> v]
        d == rp.data
    IN  IF rp.raised
        THEN IF name = "connect" THEN connect_tail(PyBool(FALSE), sp)
             ELSE IF name = "is_device_present" THEN keep(PyBool(FALSE))
             ELSE keep(PyRaise("Exception"))
        ELSE CASE name = "connect" -> connect_tail(is_device_present(d), sp)
               [] name = "is_device_present" -> keep(is_device_present(d))
               [] name \in {"start_recording", "stop_recording"} ->
                      keep(start_stop_recording(d))
               [] name = "get_device_status" -> keep(get_device_status(d, string))
               [] name = "get_device_label" -> keep(get_device_label(d))
               [] name = "sync_time" -> keep(sync_time(d))
               [] OTHER -> keep(PyNone)

\* ------------------------------------------------------------ environment
\* what the device may put on the line in answer to a frame: the presence
\* confirmation, its first 4 bytes, a confirmation with a wrong last byte,
\* and status responses with every status byte
StatusBytes == 0..7
Responses ==
    {PresencePrefix \o <<1, 2, 3, 4>>,
     SubSeq(PresencePrefix, 1, 4),
     <<12, 0, 129, 200, 65, 77, 83, 51>>}
    \cup {<<9, 0, 129, 100, b, 0, 0, 0, 0>> : b \in StatusBytes}

\* time_array values sync_time may capture from the clock
Times == {<<126, 10, 1, 14, 19, 0, 0, 7>>, <<126, 5, 30, 23, 59, 59, 1, 2>>}

\* marker texts, as sequences of code points
Markers ==
    {<<>>, <<72, 233>>, <<63, 233, 66>>, [i \in 1..34 |-> 64 + i]}

\* every packet the operations of this model build
Packets ==
    {get_parameter_packet(par) : par \in {100, 200, 202}}
    \cup {send_command_packet(com) : com \in {5, 6}}
    \cup {sync_time_packet(t) : t \in Times}
    \cup {send_marker_packet(s) : s \in Markers}

\* send_packet's bytes for each of them, evaluated once
Frames == [p \in Packets |-> send_packet(p)] @@ <<>>

\* zlib.crc32 of each of them, evaluated once
Checksums == [p \in Packets |-> crc32(byte_packet(p))] @@ <<>>

\* the list b the named operation builds when called with a
request_packet(name, a) ==
    CASE name \in {"connect", "is_device_present"} -> get_parameter_packet(200)
      [] name = "get_device_status" -> get_parameter_packet(100)
      [] name = "get_device_label" -> get_parameter_packet(202)
      [] name = "start_recording" -> send_command_packet(5)
      [] name = "stop_recording" -> send_command_packet(6)
      [] name = "sync_time" -> sync_time_packet(a)
      [] name = "send_marker" -> send_marker_packet(a)

\* ------------------------------------------------------------------ state
VARIABLES
    isConnected,  \* self.isConnected
    serialPort,   \* self.serialPort: "None", "open" or "closed"
    leaked,       \* open handles no longer referenced by self.serialPort
    inbuf,        \* bytes waiting in the transport's input buffer
    devPending,   \* frames the device received and has not answered
    pc,           \* "idle", or "recv" inside receive_packet's loop
    op,           \* the running operation, the last one when idle
    elapsed,      \* time since receive_packet computed end_time
    written,      \* frames that operation put on the wire
    ret,          \* what the last operation returned (None while one runs)
    rx,           \* how that operation's receive_packet call ended
    opened,       \* that operation is a connect() that opened the transport
    calls,        \* operations called since construction: 0, 1, or 2 for more
    again,        \* that operation is a disconnect() called right after one
    arg,          \* the sequence that operation was called with, if any
    events,       \* that operation's calls of send_packet and receive_packet
    prim,         \* what that operation's request primitive returned
    stale,        \* inbuf holds bytes sent in answer to an earlier operation
    unresolved,   \* a request is on the wire, no response read, no timeout
    awaiting,     \* a request is on the wire and its poll-read has not returned
    wroteUnresolved, \* that operation wrote its frame while unresolved held
    wroteAwaiting    \* that operation wrote its frame while awaiting held

vars == <<isConnected, serialPort, leaked, inbuf, devPending, pc, op, elapsed,
          written, ret, rx, opened, calls, again, arg, events, prim,
          stale, unresolved, awaiting, wroteUnresolved, wroteAwaiting>>

RxNone == [cause |-> "none", data |-> DataNone, raised |-> FALSE,
           stale |-> FALSE]

Init ==
    /\ isConnected = FALSE
    /\ serialPort = "None"
    /\ leaked = 0
    /\ inbuf = <<>>
    /\ devPending = 0
    /\ pc = "idle"
    /\ op = [name |-> "none", string |-> FALSE]
    /\ elapsed = 0
    /\ written = <<>>
    /\ ret = PyNone
    /\ rx = RxNone
    /\ opened = FALSE
    /\ calls = 0
    /\ again = FALSE
    /\ arg = <<>>
    /\ events = <<>>
    /\ prim = PyNone
    /\ stale = FALSE
    /\ unresolved = FALSE
    /\ awaiting = FALSE
    /\ wroteUnresolved = FALSE
    /\ wroteAwaiting = FALSE

Min(a, b) == IF a < b THEN a ELSE b

\* an operation is called: the record of the previous one is dropped
Called(name, string, a) ==
    /\ op' = [name |-> name, string |-> string]
    /\ arg' = a
    /\ calls' = Min(calls + 1, 2)
    /\ again' = (name = "disconnect" /\ op.name = "disconnect")
    /\ rx' = RxNone

\* the operation returns: the rest of its handler runs on rp
Finish(name, string, rp, sp) ==
    LET t == handler_tail(name, string, rp, isConnected, sp)
    IN  /\ isConnected' = t.isConnected
        /\ serialPort' = t.serialPort
        /\ ret' = t.ret
        /\ pc' = "idle"

\* an operation is called on handle sp: it builds packet, send_packet writes
\* it (w: the write does not raise) and, except for send_marker,
\* receive_packet starts polling
Request(name, string, a, packet, sp, w) ==
    LET wrote == write_ok(sp, w)
        request == wrote /\ name # "send_marker"
    IN  /\ Called(name, string, a)
        /\ events' = IF awaits_response(name) THEN <<"write", "poll">>
                      ELSE <<"write">>
        /\ prim' = PyNone
        /\ written' = IF wrote THEN <<Frames[packet]>> ELSE <<>>
        /\ devPending' = IF wrote THEN Min(devPending + 1, MaxPending)
                         ELSE devPending
        /\ wroteUnresolved' = (wrote /\ unresolved)
        /\ wroteAwaiting' = (wrote /\ awaiting)
        /\ unresolved' = (unresolved \/ request)
        /\ awaiting' = (awaiting \/ request)
        /\ elapsed' = 0
        /\ IF awaits_response(name)
           THEN /\ pc' = "recv"
                /\ serialPort' = sp
                /\ ret' = PyNone
                /\ UNCHANGED isConnected
           ELSE Finish(name, string, receive_packet("none", <<>>), sp)

\* connect(): serial.Serial(...) raises (ok = FALSE) and connect returns
\* False at once, or it opens a new handle with an empty input buffer, which
\* replaces the one self.serialPort referenced, and the presence check
\* starts on it
Connect(ok, w) ==
    /\ pc = "idle"
    /\ opened' = ok
    /\ IF ok
       THEN /\ serialPort = "open" => leaked < MaxLeaked
            /\ leaked' = IF serialPort = "open" THEN leaked + 1 ELSE leaked
            /\ inbuf' = <<>>
            /\ stale' = FALSE
            /\ Request("connect", FALSE, <<>>, get_parameter_packet(200),
                       "open", w)
       ELSE /\ Called("connect", FALSE, <<>>)
            /\ events' = <<>>
            /\ prim' = PyNone
            /\ stale' = (Len(inbuf) > 0)
            /\ written' = <<>>
            /\ ret' = PyBool(FALSE)
            /\ wroteUnresolved' = FALSE
            /\ wroteAwaiting' = FALSE
            /\ UNCHANGED <<isConnected, serialPort, leaked, inbuf, devPending,
                           pc, elapsed, unresolved, awaiting>>

\* disconnect()
Disconnect ==
    /\ pc = "idle"
    /\ isConnected' = disconnect(serialPort).isConnected
    /\ serialPort' = disconnect(serialPort).serialPort
    /\ Called("disconnect", FALSE, <<>>)
    /\ events' = <<>>
    /\ prim' = PyNone
    /\ stale' = (Len(inbuf) > 0)
    /\ written' = <<>>
    /\ ret' = PyNone
    /\ opened' = FALSE
    /\ wroteUnresolved' = FALSE
    /\ wroteAwaiting' = FALSE
    /\ UNCHANGED <<leaked, inbuf, devPending, pc, elapsed, unresolved, awaiting>>

\* an operation other than connect/disconnect, on the current handle
DeviceOp(name, string, a, packet, w) ==
    /\ pc = "idle"
    /\ opened' = FALSE
    /\ Request(name, string, a, packet, serialPort, w)
    /\ stale' = (Len(inbuf) > 0)
    /\ UNCHANGED <<leaked, inbuf>>

IsDevicePresent(w) ==
    DeviceOp("is_device_present", FALSE, <<>>, get_parameter_packet(200), w)

StartRecording(w) ==
    DeviceOp("start_recording", FALSE, <<>>, send_command_packet(5), w)

StopRecording(w) ==
    DeviceOp("stop_recording", FALSE, <<>>, send_command_packet(6), w)

GetDeviceStatus(string, w) ==
    DeviceOp("get_device_status", string, <<>>, get_parameter_packet(100), w)

GetDeviceLabel(w) ==
    DeviceOp("get_device_label", FALSE, <<>>, get_parameter_packet(202), w)

SyncTime(t, w) ==
    DeviceOp("sync_time", FALSE, t, sync_time_packet(t), w)

SendMarker(s, w) ==
    DeviceOp("send_marker", FALSE, s, send_marker_packet(s), w)

\* receive_packet returns for the given cause and the operation finishes
Complete(cause, bytes) ==
    LET rp == receive_packet(cause, bytes)
    IN  /\ rx' = [cause |-> cause, data |-> rp.data, raised |-> rp.raised,
                   stale |-> (cause = "data" /\ stale)]
        /\ Finish(op.name, op.string, rp, serialPort)
        /\ prim' = IF rp.raised THEN PyRaise("Exception")
                    ELSE primitive_result(op.name, rp.data)
        /\ awaiting' = FALSE
        /\ elapsed' = 0
        /\ UNCHANGED <<op, written, opened, calls, again, arg, events, leaked,
                       devPending, wroteUnresolved, wroteAwaiting>>

\* if time.time() > end_time: break
ReceiveTimeout ==
    /\ pc = "recv"
    /\ timeout_exceeded(elapsed)
    /\ Complete("timeout", <<>>)
    /\ unresolved' = FALSE
    /\ UNCHANGED <<inbuf, stale>>

\* in_waiting > 0: read everything that is waiting and return it
ReceiveData ==
    /\ pc = "recv"
    /\ ~timeout_exceeded(elapsed)
    /\ serialPort = "open"
    /\ Len(inbuf) > 0
    /\ Complete("data", inbuf)
    /\ inbuf' = <<>>
    /\ stale' = FALSE
    /\ unresolved' = FALSE

\* in_waiting = 0: time.sleep(0.1), which takes d poll intervals
ReceiveSleep ==
    /\ pc = "recv"
    /\ ~timeout_exceeded(elapsed)
    /\ serialPort = "open"
    /\ Len(inbuf) = 0
    /\ \E d \in 1..MaxSleep : elapsed' = elapsed + d
    /\ UNCHANGED <<isConnected, serialPort, leaked, inbuf, devPending, pc, op,
                   written, ret, rx, opened, calls, again, arg, events,
                   prim, stale, unresolved, awaiting,
                   wroteUnresolved, wroteAwaiting>>

\* in_waiting raises: there is no open handle, or (e) the transport fails
ReceiveError(e) ==
    /\ pc = "recv"
    /\ ~timeout_exceeded(elapsed)
    /\ serialPort # "open" \/ e
    /\ Complete("error", <<>>)
    /\ UNCHANGED <<inbuf, stale, unresolved>>

\* KeyboardInterrupt during the wait
ReceiveInterrupt ==
    /\ pc = "recv"
    /\ Complete("interrupt", <<>>)
    /\ UNCHANGED <<inbuf, stale, unresolved>>

\* the device answers one frame; the bytes are buffered while the handle is
\* open and they fit, and lost otherwise; they answer an earlier operation
\* for sure when the running one has written no frame
DeviceRespond(r) ==
    /\ devPending > 0
    /\ devPending' = devPending - 1
    /\ inbuf' = IF serialPort = "open" /\ Len(inbuf) + Len(r) <= InbufCap
                THEN inbuf \o r
                ELSE inbuf
    /\ stale' = (stale \/ (written = <<>> /\ inbuf' # inbuf))
    /\ UNCHANGED <<isConnected, serialPort, leaked, pc, op, elapsed, written,
                   ret, rx, opened, calls, again, arg, events,
                   prim, unresolved, awaiting,
                   wroteUnresolved, wroteAwaiting>>

\* a Serial object that connect() overwrote is finalised, which closes it
Finalize ==
    /\ leaked > 0
    /\ leaked' = leaked - 1
    /\ UNCHANGED <<isConnected, serialPort, inbuf, devPending, pc, op, elapsed,
                   written, ret, rx, opened, calls, again, arg, events,
                   prim, stale, unresolved, awaiting,
                   wroteUnresolved, wroteAwaiting>>

ReceiveStep ==
    \/ ReceiveTimeout
    \/ ReceiveData
    \/ ReceiveSleep
    \/ \E e \in BOOLEAN : ReceiveError(e)

Next ==
    \/ \E ok \in BOOLEAN, w \in BOOLEAN : Connect(ok, w)
    \/ Disconnect
    \/ \E w \in BOOLEAN : IsDevicePresent(w)
    \/ \E w \in BOOLEAN : StartRecording(w)
    \/ \E w \in BOOLEAN : StopRecording(w)
    \/ \E string \in BOOLEAN, w \in BOOLEAN : GetDeviceStatus(string, w)
    \/ \E w \in BOOLEAN : GetDeviceLabel(w)
    \/ \E t \in Times, w \in BOOLEAN : SyncTime(t, w)
    \/ \E s \in Markers, w \in BOOLEAN : SendMarker(s, w)
    \/ ReceiveStep
    \/ ReceiveInterrupt
    \/ \E r \in Responses : DeviceRespond(r)
    \/ Finalize

Spec == Init /\ [][Next]_vars

\* the poll loop of receive_packet keeps running once entered
LiveSpec == Spec /\ WF_vars(ReceiveStep)

\* ------------------------------------------------ the functions on their own
\* a facade on handle sp about to apply one of its functions to input a
PureInit(a, sp) ==
    /\ arg = a
    /\ serialPort = sp
    /\ isConnected = FALSE
    /\ leaked = 0
    /\ inbuf = <<>>
    /\ devPending = 0
    /\ pc = "idle"
    /\ op = [name |-> "none", string |-> FALSE]
    /\ elapsed = 0
    /\ written = <<>>
    /\ ret = PyNone
    /\ rx = RxNone
    /\ opened = FALSE
    /\ calls = 0
    /\ again = FALSE
    /\ events = <<>>
    /\ prim = PyNone
    /\ stale = FALSE
    /\ unresolved = FALSE
    /\ awaiting = FALSE
    /\ wroteUnresolved = FALSE
    /\ wroteAwaiting = FALSE

\* the integers a caller may put in a packet, in and out of the byte range
CodecInts == {-257, -1, 0, 8, 200, 255, 256}

CodecInputs ==
    UNION {[1..n -> CodecInts] : n \in 0..MaxCodecLen}

\* send_packet(arg) on an open handle; w: the write does not raise
SendPacket(w) ==
    /\ pc = "idle"
    /\ op.name = "none"
    /\ op' = [name |-> "send_packet", string |-> FALSE]
    /\ events' = <<"write">>
    /\ written' = IF write_ok(serialPort, w) THEN <<send_packet(arg)>> ELSE <<>>
    /\ UNCHANGED <<isConnected, serialPort, leaked, inbuf, devPending, pc,
                   elapsed, ret, rx, opened, calls, again, arg, prim,
                   stale, unresolved, awaiting, wroteUnresolved, wroteAwaiting>>

\* what list_ports.comports() may report for a port: the device itself on
\* two names, a description that names another port, a missing vendor id,
\* another FTDI product, a missing product id and another manufacturer
PortInfo(dev, desc, vid, pid, man) ==
    [device |-> dev, description |-> desc, vid |-> vid, pid |-> pid,
     manufacturer |-> man]

Ports ==
    {PortInfo("COM3", "USB Serial Port (COM3)", PyInt(1027), PyInt(24577),
              PyStr("FTDI")),
     PortInfo("COM4", "USB Serial Port (COM4)", PyInt(1027), PyInt(24577),
              PyStr("FTDI")),
     PortInfo("COM5", "USB Serial Port (COM3)", PyInt(1027), PyInt(24577),
              PyStr("FTDI")),
     PortInfo("COM6", "USB Serial Port (COM6)", PyNone, PyInt(24577),
              PyStr("FTDI")),
     PortInfo("COM7", "USB Serial Port (COM7)", PyInt(1027), PyInt(24596),
              PyStr("FTDI")),
     PortInfo("COM8", "USB Serial Port (COM8)", PyInt(1027), PyNone, PyNone),
     PortInfo("COM9", "USB Serial Port (COM9)", PyInt(1027), PyInt(24577),
              PyStr("Prolific"))}

PortLists == UNION {[1..n -> Ports] : n \in 0..MaxPorts}

\* find_device_port(), with arg what comports() returns
FindDevicePort ==
    /\ pc = "idle"
    /\ op.name = "none"
    /\ op' = [name |-> "find_device_port", string |-> FALSE]
    /\ ret' = find_device_port(arg)
    /\ UNCHANGED <<isConnected, serialPort, leaked, inbuf, devPending, pc,
                   elapsed, written, rx, opened, calls, again, arg, events,
                   prim, stale, unresolved, awaiting, wroteUnresolved,
                   wroteAwaiting>>

FindInit == \E ports \in PortLists : PureInit(ports, "None")

FindNext == FindDevicePort

FindSpec == FindInit /\ [][FindNext]_vars

CodecInit == \E p \in CodecInputs : PureInit(p, "open")

CodecNext == \E w \in BOOLEAN : SendPacket(w)

CodecSpec == CodecInit /\ [][CodecNext]_vars

TypeOK ==
    /\ isConnected \in BOOLEAN
    /\ serialPort \in {"None", "open", "closed"}
    /\ leaked \in 0..MaxLeaked
    /\ devPending \in 0..MaxPending
    /\ Len(inbuf) <= InbufCap
    /\ pc \in {"idle", "recv"}
    /\ elapsed \in 0..(DefaultTimeout + MaxSleep)
    /\ Len(written) <= 1

\* ------------------------------------------------------------------ claims
\* C1: starting from a freshly constructed facade, connect() returns True
\* and leaves the session Connected if and only if the transport open
\* succeeded and the response to the presence request begins with the 8
\* bytes 12,0,129,200,65,77,83,50; in every other outcome it returns False,
\* the handle is closed and the session is Disconnected.
C1_ConnectFromFresh ==
    (pc = "idle" /\ op.name = "connect" /\ calls = 1) =>
        LET confirmed ==
                /\ opened
                /\ ~rx.data.none
                /\ Len(rx.data.bytes) >= 8
                /\ \A i \in 1..8 :
                       rx.data.bytes[i] = <<12, 0, 129, 200, 65, 77, 83, 50>>[i]
        IN  IF confirmed
            THEN ret = PyBool(TRUE) /\ isConnected /\ serialPort = "open"
            ELSE /\ ret = PyBool(FALSE)
                 /\ ~isConnected
                 /\ serialPort \in {"None", "closed"}
                 /\ leaked = 0

\* the first connect() opened the transport, read a response that is not the
\* presence confirmation, and returned False
C1_Witness ==
    /\ pc = "idle" /\ op.name = "connect" /\ calls = 1
    /\ opened /\ rx.cause = "data" /\ Len(rx.data.bytes) >= 8
    /\ ret = PyBool(FALSE) /\ serialPort = "closed"

\* C2: whenever connect() returns False the session is Disconnected and no
\* open handle is retained, whatever the state it was called in (also when
\* it was called while Connected and the transport open failed).
C2_FailedConnectIsDisconnected ==
    (pc = "idle" /\ op.name = "connect" /\ ret = PyBool(FALSE)) =>
        (~isConnected /\ serialPort \in {"None", "closed"})

\* C3: disconnect() returns normally in every state, leaves the handle
\* closed and the session Disconnected, and a second disconnect() right
\* after it changes nothing.
C3_DisconnectState ==
    /\ (pc = "idle" /\ op.name = "disconnect") =>
           /\ ret = PyNone
           /\ ~isConnected
           /\ serialPort \in {"None", "closed"}
    /\ pc = "idle" => ENABLED Disconnect

C3_DisconnectIdempotent ==
    /\ []C3_DisconnectState
    /\ [][(op'.name = "disconnect" /\ again') =>
              UNCHANGED <<isConnected, serialPort>>]_vars

\* disconnect() was called right after a disconnect() that closed an open handle
C3_Witness ==
    /\ pc = "idle" /\ op.name = "disconnect" /\ again
    /\ serialPort = "closed" /\ ~isConnected

\* the operations that talk to the device, connect/disconnect aside
DeviceOps ==
    {"is_device_present", "start_recording", "stop_recording",
     "get_device_status", "get_device_label", "sync_time", "send_marker"}

\* C4 as stated: no frame is written while an earlier request is unresolved,
\* that is before its response has been received or its timeout has elapsed.
C4_NoWriteWhileUnresolved == ~wroteUnresolved

\* C4 as amended: no frame is written while an earlier request's poll-read is
\* still running; every request operation returns only after its poll-read
\* returned (response read, timeout elapsed, wait interrupted, or read raised).
C4_NoWriteWhilePolling ==
    /\ ~wroteAwaiting
    /\ pc = "idle" => ~awaiting
    /\ (pc = "recv" /\ written # <<>>) => awaiting

\* an operation wrote its frame after the wait for an earlier request was cut
\* short, and is now polling for its own response
C4_Witness ==
    /\ pc = "recv" /\ written # <<>> /\ wroteUnresolved /\ ~wroteAwaiting

\* C5: a device operation invoked while the session is Disconnected puts no
\* frame on the transport and returns None or False without raising.
C5_DisconnectedOpsInert ==
    (op.name \in DeviceOps /\ ~isConnected) =>
        /\ written = <<>>
        /\ pc = "idle" => ret \in {PyNone, PyBool(FALSE)}

\* a status query on a session whose handle a disconnect or a failed
\* connect closed returned None
C5_Witness ==
    /\ pc = "idle" /\ op.name = "get_device_status" /\ ~isConnected
    /\ serialPort = "closed" /\ ret = PyNone /\ rx.cause = "error"

\* C6: receive_packet always terminates without raising: bytes found waiting
\* at a poll made before the deadline passed are returned; without data it
\* returns None only once the deadline has passed; an interrupt ends the
\* wait early with None and leaves handle, session and input untouched.
C6_ReturnStep ==
    (pc = "recv" /\ pc' = "idle") =>
        /\ ~rx'.raised
        /\ rx'.cause = "data" =>
               /\ Len(inbuf) > 0
               /\ elapsed <= DefaultTimeout
               /\ rx'.data = DataOf(inbuf)
        /\ rx'.cause = "timeout" =>
               /\ elapsed > DefaultTimeout
               /\ rx'.data = DataNone
        /\ (serialPort = "open" /\ Len(inbuf) > 0 /\ elapsed <= DefaultTimeout
            /\ rx'.cause \notin {"interrupt", "error"}) =>
               rx'.data = DataOf(inbuf)
        /\ rx'.cause = "interrupt" =>
               /\ rx'.data = DataNone
               /\ inbuf' = inbuf
               /\ op.name # "connect" =>
                      UNCHANGED <<isConnected, serialPort>>

C6_PollReadTerminates ==
    /\ [][C6_ReturnStep]_vars
    /\ [](elapsed <= DefaultTimeout + MaxSleep)
    /\ (pc = "recv") ~> (pc = "idle")

\* a poll-read on an open handle gave up after the deadline with no data
C6_Witness ==
    /\ pc = "idle" /\ rx.cause = "timeout" /\ rx.data.none
    /\ serialPort = "open" /\ op.name = "sync_time"

\* C7: start_recording() / stop_recording() send [8,0,11,5] / [8,0,11,6] and
\* report success exactly when a response was received before the timeout:
\* True if a response arrived, False if the read timed out.
C7_RecordingReportsSuccess ==
    (pc = "idle" /\ op.name \in {"start_recording", "stop_recording"}) =>
        /\ written # <<>> =>
               SubSeq(written[1], 1, 4) =
                   <<8, 0, 11, IF op.name = "start_recording" THEN 5 ELSE 6>>
        /\ rx.cause = "data" => ret = PyBool(TRUE)
        /\ rx.cause = "timeout" => ret = PyBool(FALSE)

\* the labels of the status codes, as the claim lists them
ClaimLabels ==
    <<"No Memory", "Close Cover", "Idle", "Recording", "Memory Full",
      "Battery Low">>

\* C8 as stated: on a Connected session get_status returns "no data" iff the
\* read timed out;
\* otherwise the result is the byte at offset 4 (as_label false) or that
\* code's label (as_label true).
C8_StatusIffTimeout ==
    (pc = "idle" /\ op.name = "get_device_status" /\ isConnected) =>
        /\ (ret = PyNone) <=> (rx.cause = "timeout")
        /\ rx.cause # "timeout" =>
               /\ Len(rx.data.bytes) >= 5
               /\ ~op.string => ret = PyInt(rx.data.bytes[5])
               /\ op.string =>
                      /\ rx.data.bytes[5] \in 1..6
                      /\ ret = PyStr(ClaimLabels[rx.data.bytes[5]])

\* C8 as amended: get_status returns "no data" iff the poll-read returned no
\* data (deadline passed, wait interrupted, or the transport not readable);
\* for a response of at least 5 bytes whose byte at offset 4 is in 1..6 the
\* result is that byte (as_label false) or its label (as_label true).
C8_StatusDecode ==
    (pc = "idle" /\ op.name = "get_device_status") =>
        /\ (ret = PyNone) <=> rx.data.none
        /\ rx.data.none <=> (rx.cause \in {"timeout", "interrupt", "error"})
        /\ (~rx.data.none /\ Len(rx.data.bytes) >= 5
            /\ rx.data.bytes[5] \in 1..6) =>
               ret = IF op.string THEN PyStr(ClaimLabels[rx.data.bytes[5]])
                     ELSE PyInt(rx.data.bytes[5])

\* the label form decoded a response with byte 4 = 4 to "Recording"
C8_Witness ==
    /\ pc = "idle" /\ op.name = "get_device_status" /\ op.string
    /\ rx.cause = "data" /\ rx.data.bytes[5] = 4 /\ ret = PyStr("Recording")

\* C9: for a non-empty response shorter than 5 bytes, or one whose byte at
\* offset 4 is not in 1..6, get_status surfaces an error in both forms
\* instead of returning a value.
C9_MalformedStatusIsError ==
    (pc = "idle" /\ op.name = "get_device_status" /\ ~rx.data.none
     /\ (Len(rx.data.bytes) < 5 \/ rx.data.bytes[5] \notin 1..6)) =>
        ret.kind = "raise"

\* C10: the presence check returns True iff the first 8 bytes of the response
\* are 12,0,129,200,65,77,83,50, and False (without raising) for a timed-out
\* read, a shorter response or a differing prefix.
C10_PresenceIsBoolean ==
    (pc = "idle" /\ op.name = "is_device_present"
     /\ rx.cause \in {"data", "timeout"}) =>
        ret = PyBool(/\ ~rx.data.none
                     /\ Len(rx.data.bytes) >= 8
                     /\ SubSeq(rx.data.bytes, 1, 8) =
                            <<12, 0, 129, 200, 65, 77, 83, 50>>)

\* C11: send_marker is fire-and-forget: a call makes exactly one write, of
\* the marker frame, and no poll-read, it has returned (None) in the step of
\* the call whether or not the device ever answers, and it leaves the
\* session state and the handle as they were and the pending input
\* unread: only an answer of the device adds to it.
C11_MarkerFireAndForget ==
    /\ [](op.name = "send_marker" =>
             /\ pc = "idle"
             /\ ret = PyNone
             /\ events = <<"write">>
             /\ rx = RxNone
             /\ Len(written) <= 1
             /\ \A i \in 1..Len(written) :
                    SubSeq(written[i], 1, 52) = send_marker_packet(arg))
    /\ [][(pc = "idle" /\ op'.name = "send_marker") =>
             /\ UNCHANGED <<isConnected, serialPort>>
             /\ \/ inbuf' = inbuf
                \/ /\ devPending' < devPending
                   /\ Len(inbuf') > Len(inbuf)
                   /\ SubSeq(inbuf', 1, Len(inbuf)) = inbuf]_vars

\* a marker was written on a connected session and the device has neither
\* answered it nor anything else
C11_Witness ==
    /\ pc = "idle"
    /\ op.name = "send_marker"
    /\ isConnected
    /\ written = <<Frames[send_marker_packet(arg)]>>
    /\ events = <<"write">>
    /\ inbuf = <<>>
    /\ devPending > 0

\* C12: for every sequence of integers given to send_packet, the bytes
\* written are the integers wrapped modulo 256 followed by exactly 4 bytes,
\* and those 4 bytes are the CRC-32 of the bytes before them in big-endian
\* order, most-significant byte first.
C12_CodecBigEndian ==
    (op.name = "send_packet" /\ written # <<>>) =>
        LET f == written[1]
            n == Len(arg)
            c == crc32(SubSeq(f, 1, n))
        IN  /\ Len(f) = n + 4
            /\ \A i \in 1..n : f[i] = arg[i] % 256
            /\ SubSeq(f, n + 1, n + 4) =
                   <<c[1] \div 256, c[1] % 256, c[2] \div 256, c[2] % 256>>

\* the 4 bytes of checksum c, most- or least-significant byte first
ChecksumOrders(c) ==
    {<<c[1] \div 256, c[1] % 256, c[2] \div 256, c[2] % 256>>,
     <<c[2] % 256, c[2] \div 256, c[1] % 256, c[1] \div 256>>}

\* C13 as stated: in every frame written, the first byte equals the number
\* of bytes before the checksum, and the checksum is the last 4 bytes.
C13_LengthIsPayloadCount ==
    \A i \in 1..Len(written) :
        LET f == written[i]
            n == Len(f) - 4
        IN  /\ n > 0
            /\ f[1] = n
            /\ SubSeq(f, n + 1, n + 4) \in ChecksumOrders(crc32(SubSeq(f, 1, n)))

\* C13, amended: every frame written is the list its operation built
\* followed by the 4 bytes of that list's CRC-32, and its first byte equals
\* the length of the list plus the 4 checksum bytes.
C13_LengthCountsChecksum ==
    \A i \in 1..Len(written) :
        LET f == written[i]
            b == request_packet(op.name, arg)
            n == Len(b)
        IN  /\ Len(f) = n + 4
            /\ SubSeq(f, 1, n) = byte_packet(b)
            /\ SubSeq(f, n + 1, n + 4) \in ChecksumOrders(Checksums[b])
            /\ f[1] = n + 4

\* sync_time wrote its 12-element list as a frame that starts with 16
C13_Witness ==
    /\ op.name = "sync_time"
    /\ written # <<>>
    /\ Len(request_packet(op.name, arg)) = 12
    /\ written[1][1] = 16

\* what each operation's frame measures on the wire
FrameBytes(name) ==
    CASE name = "sync_time" -> 16
      [] name = "send_marker" -> 56
      [] OTHER -> 8

\* C19: in every frame written, the first byte equals the total number of
\* bytes written for that frame, checksum included: 8 for a get_parameter
\* or send_command request, 16 for sync_time and 56 for send_marker.
C19_FirstByteIsTotal ==
    \A i \in 1..Len(written) :
        /\ written[i][1] = Len(written[i])
        /\ Len(written[i]) = FrameBytes(op.name)

\* a marker frame of 56 bytes is on the wire
C19_Witness ==
    /\ op.name = "send_marker"
    /\ written # <<>>
    /\ Len(written[1]) = 56

\* C14: send_marker writes a frame of 52 bytes before the checksum whose
\* bytes from offset 20 on are the first 32 characters of the text, each
\* unchanged if it is ASCII and replaced by '_' (95) if it is not, followed
\* by zeros; characters after the 32nd appear nowhere in the frame.
C14_MarkerText ==
    (op.name = "send_marker" /\ written # <<>>) =>
        LET f == written[1]
            t == Slice(arg, 32)
        IN  /\ Len(f) = 52 + 4
            /\ \A j \in 21..52 :
                   f[j] = IF j - 20 > Len(t) THEN 0
                          ELSE IF t[j - 20] <= 127 THEN t[j - 20]
                          ELSE 95

\* C20: the bytes a request operation's poll-read returns were sent by the
\* device in answer to that operation's own frame: none of them answers an
\* earlier request that timed out or an earlier send_marker.
C20_ResponsePairing ==
    (/\ pc = "idle"
     /\ isConnected
     /\ op.name \in DeviceOps
     /\ written # <<>>
     /\ rx.cause = "data") => ~rx.stale

\* the running device operation met a transport exception on an open
\* handle: its write raised, or in_waiting raised during its poll-read
TransportRaised ==
    /\ op.name \in DeviceOps
    /\ serialPort = "open"
    /\ \/ events # <<>> /\ written = <<>>
       \/ rx.cause = "error"

\* C15: when the transport raises during the write or the read of an
\* operation on an open handle, nothing is raised to the caller, the
\* operation reports failure (no data from get_parameter, false from
\* sync_time and send_command, nothing from send_marker), and the step
\* that ends it changes neither isConnected nor the handle.
C15_TransportErrorContained ==
    /\ [](pc = "idle" /\ TransportRaised =>
             /\ ret.kind # "raise"
             /\ prim \in {PyNone, PyBool(FALSE)})
    /\ [][pc' = "idle" /\ TransportRaised' =>
             UNCHANGED <<isConnected, serialPort>>]_vars

\* the handles opened by connect() that are open now
OpenHandles == (IF serialPort = "open" THEN 1 ELSE 0) + leaked

\* C16: at any point at most one handle opened by the facade is open; a
\* connect() that fails has closed the handle it opened when it returns;
\* and after disconnect() returns no handle opened by an earlier connect()
\* is open, repeated connect() calls without a disconnect included.
C16_HandleLifecycle ==
    /\ OpenHandles <= 1
    /\ (pc = "idle" /\ op.name = "connect" /\ opened /\ ret = PyBool(FALSE)) =>
           serialPort = "closed"
    /\ (pc = "idle" /\ op.name = "disconnect") => OpenHandles = 0

\* the operations built on get_parameter, and those on send_command
ParameterOps ==
    {"connect", "is_device_present", "get_device_status", "get_device_label"}
CommandOps == {"start_recording", "stop_recording"}

\* the request frame, before its checksum, that C18 names for each of them
RequestForm(name, a) ==
    CASE name \in {"connect", "is_device_present"} -> <<8, 0, 1, 200>>
      [] name = "get_device_status" -> <<8, 0, 1, 100>>
      [] name = "get_device_label" -> <<8, 0, 1, 202>>
      [] name = "start_recording" -> <<8, 0, 11, 5>>
      [] name = "stop_recording" -> <<8, 0, 11, 6>>
      [] name = "sync_time" -> <<16, 0, 6, 0>> \o a

\* C18: there is no retry. A call of get_parameter, sync_time or
\* send_command makes exactly one write, of its request frame, followed by
\* exactly one poll-read; when the poll-read times out the call ends with no
\* data (get_parameter) or False (sync_time, send_command), and from then
\* until the next call nothing is written or read.
C18_NoRetry ==
    /\ []((op.name \in ParameterOps \cup CommandOps \cup {"sync_time"}
            /\ events # <<>>) =>
              /\ events = <<"write", "poll">>
              /\ Len(written) <= 1
              /\ op.name = "sync_time" => Len(arg) = 8
              /\ \A i \in 1..Len(written) :
                     SubSeq(written[i], 1, Len(written[i]) - 4)
                         = RequestForm(op.name, arg))
    /\ []((pc = "idle" /\ rx.cause = "timeout") =>
              prim = IF op.name \in ParameterOps THEN PyNone ELSE PyBool(FALSE))
    /\ [][rx'.cause = "timeout" =>
              /\ pc' = "idle"
              /\ UNCHANGED <<written, events>>]_vars

\* sync_time wrote its frame, polled once and timed out
C18_Witness ==
    /\ pc = "idle"
    /\ op.name = "sync_time"
    /\ written # <<>>
    /\ events = <<"write", "poll">>
    /\ rx.cause = "timeout"
    /\ prim = PyBool(FALSE)

\* the port at index i of arg is the device by the stated rule: its
\* description names its own device, its ids are 0x0403 and 0x6001 and its
\* manufacturer is FTDI
IsDevice(i) ==
    /\ arg[i].description = "USB Serial Port (" \o arg[i].device \o ")"
    /\ arg[i].vid = PyInt(4 * 256 + 3)
    /\ arg[i].pid = PyInt(6 * 4096 + 1)
    /\ arg[i].manufacturer = PyStr("FTDI")

\* C17: find_device_port returns the device name of the first port, in
\* enumeration order, that is the device by the stated rule; a port whose
\* ids cannot be formatted is skipped and the ports after it are still
\* examined; with no such port the result is None and nothing is raised.
C17_FirstMatchingPort ==
    op.name = "find_device_port" =>
        IF \E i \in 1..Len(arg) : IsDevice(i)
        THEN \E i \in 1..Len(arg) :
                /\ IsDevice(i)
                /\ \A j \in 1..(i - 1) : ~IsDevice(j)
                /\ ret = PyStr(arg[i].device)
        ELSE ret = PyNone

\* a port without a vendor id came first and the device after it was found
C17_Witness ==
    /\ op.name = "find_device_port"
    /\ Len(arg) >= 2
    /\ arg[1].vid = PyNone
    /\ IsDevice(2)
    /\ ret = PyStr(arg[2].device)
====
